---- MODULE Spec2Model ----
(***************************************************************************)
(* Model of src/use/node.ts: createHandler and the requestListener it      *)
(* returns.  One listener, a set of request/response cycles, the inbound   *)
(* body stream of every cycle, the outgoing response of every cycle, the   *)
(* external protocol handler (handle) as an unconstrained environment.     *)
(*                                                                         *)
(* JavaScript values are tagged records; texts written to the response are *)
(* sequences of one-character strings; request body chunks are sequences   *)
(* of bytes (a Buffer) and decoded texts are sequences of code points.     *)
(***************************************************************************)
EXTENDS Integers, Sequences, FiniteSets, TLC

(***************************************************************************)
(* Bounds of the model.                                                    *)
(***************************************************************************)
MaxChunks == 2
MaxBodyCalls == 2

(***************************************************************************)
(* JavaScript values.                                                      *)
(***************************************************************************)
Undef == [t |-> "undefined"]
Str(s) == [t |-> "string", s |-> s]
Num(n) == [t |-> "number", n |-> n]
Arr(items) == [t |-> "array", items |-> items]
Obj(props) == [t |-> "object", props |-> props]
ErrorVal(message, stack) == [t |-> "Error", message |-> message, stack |-> stack]
\* an object that references itself (JSON.stringify cannot serialise it)
Circular == [t |-> "circular"]

\* !x of JavaScript for the values a request field can hold
Falsy(v) == v = Undef \/ v = Str(<<>>)

RECURSIVE Concat(_)
\* the concatenation of a sequence of sequences
Concat(ss) == IF ss = <<>> THEN <<>> ELSE Head(ss) \o Concat(Tail(ss))

(***************************************************************************)
(* JSON.stringify, on the values above.                                    *)
(***************************************************************************)
JsonEscape(ch) ==
  IF ch = "\"" THEN <<"\\", "\"">>
  ELSE IF ch = "\\" THEN <<"\\", "\\">>
  ELSE IF ch = "\n" THEN <<"\\", "n">>
  ELSE <<ch>>

RECURSIVE JsonEscapeAll(_)
JsonEscapeAll(s) ==
  IF s = <<>> THEN <<>> ELSE JsonEscape(Head(s)) \o JsonEscapeAll(Tail(s))

JsonQuote(s) == <<"\"">> \o JsonEscapeAll(s) \o <<"\"">>

Digit(d) == CASE d = 0 -> "0" [] d = 1 -> "1" [] d = 2 -> "2" [] d = 3 -> "3"
              [] d = 4 -> "4" [] d = 5 -> "5" [] d = 6 -> "6" [] d = 7 -> "7"
              [] d = 8 -> "8" [] d = 9 -> "9"

RECURSIVE NumText(_)
NumText(n) == IF n < 10 THEN <<Digit(n)>> ELSE NumText(n \div 10) \o <<Digit(n % 10)>>

RECURSIVE JsonThrows(_)
\* JSON.stringify(v) throws a TypeError (a circular structure)
JsonThrows(v) ==
  CASE v.t = "circular" -> TRUE
    [] v.t = "array" -> \E i \in 1..Len(v.items) : JsonThrows(v.items[i])
    [] v.t = "object" -> \E i \in 1..Len(v.props) : JsonThrows(v.props[i][2])
    [] OTHER -> FALSE

IsDefined(p) == p[2] # Undef

RECURSIVE JsonText(_), JsonElements(_, _), JsonMembers(_, _)
\* the text JSON.stringify(v) returns, for a v it does not throw on
JsonText(v) ==
  CASE v.t = "string" -> JsonQuote(v.s)
    [] v.t = "number" -> NumText(v.n)
    [] v.t = "undefined" -> <<"n", "u", "l", "l">>
    \* message and stack are not enumerable properties
    [] v.t = "Error" -> <<"{", "}">>
    [] v.t = "array" -> <<"[">> \o JsonElements(v.items, 1) \o <<"]">>
    \* a property whose value is undefined is left out
    [] v.t = "object" ->
         <<"{">> \o JsonMembers(SelectSeq(v.props, IsDefined), 1) \o <<"}">>

\* the elements of an array from the i-th on, separated by commas
JsonElements(items, i) ==
  IF i > Len(items) THEN <<>>
  ELSE (IF i > 1 THEN <<",">> ELSE <<>>)
         \o JsonText(items[i]) \o JsonElements(items, i + 1)

\* the members of an object from the i-th on, separated by commas
JsonMembers(props, i) ==
  IF i > Len(props) THEN <<>>
  ELSE (IF i > 1 THEN <<",">> ELSE <<>>)
         \o JsonQuote(props[i][1]) \o <<":">> \o JsonText(props[i][2])
         \o JsonMembers(props, i + 1)

(***************************************************************************)
(* Buffer.prototype.toString(): UTF-8 decoding of one chunk, on its own.   *)
(* `body += chunk` converts the chunk to a string before appending it.     *)
(***************************************************************************)
ReplacementChar == 65533

IsLead2(b) == b >= 194 /\ b <= 223
IsCont(b) == b >= 128 /\ b <= 191

RECURSIVE Utf8Decode(_)
Utf8Decode(bs) ==
  IF bs = <<>> THEN <<>>
  ELSE IF bs[1] < 128 THEN <<bs[1]>> \o Utf8Decode(Tail(bs))
  ELSE IF IsLead2(bs[1]) /\ Len(bs) >= 2 /\ IsCont(bs[2])
    THEN <<(bs[1] - 192) * 64 + (bs[2] - 128)>> \o Utf8Decode(Tail(Tail(bs)))
  ELSE <<ReplacementChar>> \o Utf8Decode(Tail(bs))

\* string + Buffer
ChunkToString(chunk) == Utf8Decode(chunk)

(***************************************************************************)
(* Texts of the program (src/use/node.ts:33, 36, 64) and of the inputs.    *)
(***************************************************************************)
MissingUrlMessage == <<"M", "i", "s", "s", "i", "n", "g", " ", "r", "e", "q", "u", "e", "s", "t", " ", "U", "R", "L">>
MissingMethodMessage == <<"M", "i", "s", "s", "i", "n", "g", " ", "r", "e", "q", "u", "e", "s", "t", " ", "m", "e", "t", "h", "o", "d">>
ContentTypeName == <<"c", "o", "n", "t", "e", "n", "t", "-", "t", "y", "p", "e">>
ContentTypeJson == <<"a", "p", "p", "l", "i", "c", "a", "t", "i", "o", "n", "/", "j", "s", "o", "n", ";", " ", "c", "h", "a", "r", "s", "e", "t", "=", "u", "t", "f", "-", "8">>

\* the stack of an Error created with `message`: its first line names the error
StackOf(message) == <<"E", ":">> \o message \o <<"\n", "@">>

\* new Error(message)
NewError(message) == ErrorVal(message, StackOf(message))

NoFault == [t |-> "none"]

(***************************************************************************)
(* The outgoing response (http.ServerResponse), as the calls made on it.   *)
(* A trace is the sequence of the external calls one cycle has made:       *)
(* handle, console.error, res.writeHead, res.end.                          *)
(***************************************************************************)
HeadersSent(tr) == \E i \in 1..Len(tr) : tr[i].op = "writeHead" /\ ~tr[i].threw
Finished(tr) == \E i \in 1..Len(tr) : tr[i].op = "end" /\ ~tr[i].threw

ValidStatus(v) == v.t = "number" /\ v.n >= 100 /\ v.n <= 999

\* the faults ServerResponse raises
ErrHeadersSent == NewError(<<"H">>)
ErrInvalidStatusCode == NewError(<<"S">>)
ErrInvalidArgType == NewError(<<"A">>)
\* the TypeError of JSON.stringify on a circular structure
ErrCircular == NewError(<<"C">>)
\* the TypeError of reading a property of undefined
ErrUndefinedRead == NewError(<<"U">>)

\* res.writeHead(args): throws when the head was already written or the status
\* code is out of range; otherwise writes the head
WriteHead(tr, args) ==
  LET fault == IF HeadersSent(tr) THEN ErrHeadersSent
               ELSE IF ~ValidStatus(args[1]) THEN ErrInvalidStatusCode
               ELSE NoFault
  IN [trace |-> Append(tr, [op |-> "writeHead", args |-> args, threw |-> fault # NoFault]),
      fault |-> fault]

\* res.end(args): throws on a chunk that is neither a string nor absent
End(tr, args) ==
  LET fault == IF args # <<>> /\ args[1].t \notin {"string", "undefined"}
               THEN ErrInvalidArgType ELSE NoFault
  IN [trace |-> Append(tr, [op |-> "end", args |-> args, threw |-> fault # NoFault]),
      fault |-> fault]

\* console.error(message, err)
ConsoleError(tr, err) == Append(tr, [op |-> "console.error", err |-> err])

(***************************************************************************)
(* requestListener, lines 30-79.                                           *)
(***************************************************************************)
\* mutant of Validate: only an absent field is refused, an empty one passes
ValidateUndefinedOnly(r) ==
  IF r.url = Undef THEN NewError(MissingUrlMessage)
  ELSE IF r.method = Undef THEN NewError(MissingMethodMessage)
  ELSE NoFault

\* lines 32-37: the fault the validation throws, NoFault when it passes
Validate(r) ==
  IF Falsy(r.url) THEN NewError(MissingUrlMessage)
  ELSE IF Falsy(r.method) THEN NewError(MissingMethodMessage)
  ELSE NoFault

\* mutant of Descriptor: the headers are not handed over and a context is set
DescriptorNoHeaders(c, r) ==
  [url |-> r.url, method |-> r.method, headers |-> Obj(<<>>),
   raw |-> c, context |-> Obj(<<>>)]

\* lines 38-50: the descriptor handed to handle; raw is the request object
\* itself, named by its cycle
Descriptor(c, r) ==
  [url |-> r.url, method |-> r.method, headers |-> r.headers,
   raw |-> c, context |-> Undef]

\* mutant of SuccessWrite: the status text is not forwarded
SuccessWriteDropsStatusText(tr, body, init) ==
  IF init = Undef THEN [trace |-> tr, fault |-> ErrUndefinedRead]
  ELSE LET h == WriteHead(tr, <<init.status, init.headers>>)
       IN IF h.fault # NoFault THEN h ELSE End(h.trace, <<body>>)

\* line 51: res.writeHead(init.status, init.statusText, init.headers).end(body)
SuccessWrite(tr, body, init) ==
  IF init = Undef THEN [trace |-> tr, fault |-> ErrUndefinedRead]
  ELSE LET h == WriteHead(tr, <<init.status, init.statusText, init.headers>>)
       IN IF h.fault # NoFault THEN h ELSE End(h.trace, <<body>>)

\* mutant of ErrorEnvelope: the fault is serialised as it is, Error or not
ErrorEnvelopeRaw(err) == Obj(<< <<(<<"e", "r", "r", "o", "r", "s">>), Arr(<<err>>)>> >>)

\* mutant of ErrorEnvelope: message and stack are read from whatever was caught
ErrorEnvelopeAlwaysMessageStack(err) ==
  Obj(<< <<(<<"e", "r", "r", "o", "r", "s">>),
           Arr(<<Obj(<< <<(<<"m", "e", "s", "s", "a", "g", "e">>),
                          IF err.t = "Error" THEN Str(err.message) ELSE Undef>>,
                        <<(<<"s", "t", "a", "c", "k">>),
                          IF err.t = "Error" THEN Str(err.stack) ELSE Undef>> >>)>>)>> >>)

\* lines 66-75: the error payload envelope
ErrorEnvelope(err) ==
  Obj(<< <<(<<"e", "r", "r", "o", "r", "s">>),
           Arr(<<IF err.t = "Error"
                 THEN Obj(<< <<(<<"m", "e", "s", "s", "a", "g", "e">>), Str(err.message)>>,
                             <<(<<"s", "t", "a", "c", "k">>), Str(err.stack)>> >>)
                 ELSE err>>)>> >>)

\* line 61: res.writeHead(500).end()
ProductionFallback(tr) ==
  LET h == WriteHead(tr, <<Num(500)>>)
  IN IF h.fault # NoFault THEN h ELSE End(h.trace, <<>>)

\* lines 63-76: the head is written before JSON.stringify is evaluated
DiagnosticFallback(tr, err) ==
  LET h == WriteHead(tr, <<Num(500),
                          Obj(<< <<ContentTypeName, Str(ContentTypeJson)>> >>)>>)
      envelope == ErrorEnvelope(err)
  IN IF h.fault # NoFault THEN h
     ELSE IF JsonThrows(envelope) THEN [trace |-> h.trace, fault |-> ErrCircular]
     ELSE End(h.trace, <<Str(JsonText(envelope))>>)

\* mutant of Fallback: the diagnostic response whatever the mode
FallbackIgnoresProd(tr, err, prod) == DiagnosticFallback(tr, err)

\* mutant of Fallback: no else, the production branch falls through
FallbackFallsThrough(tr, err, prod) ==
  IF prod
  THEN LET p == ProductionFallback(tr)
       IN IF p.fault # NoFault THEN p ELSE DiagnosticFallback(p.trace, err)
  ELSE DiagnosticFallback(tr, err)

\* lines 60-77: the fallback response
Fallback(tr, err, prod) ==
  IF prod THEN ProductionFallback(tr) ELSE DiagnosticFallback(tr, err)

\* mutant of CatchBlock: the fault is thrown again after the fallback
CatchBlockRethrows(tr, err, prod) ==
  [trace |-> Fallback(ConsoleError(tr, err), err, prod).trace,
   fault |-> NewError(<<"r">>)]

\* mutant of CatchBlock: the fault is logged and no response is written
CatchBlockLogsOnly(tr, err, prod) ==
  [trace |-> ConsoleError(tr, err), fault |-> NoFault]

\* mutant of CatchBlock: the fault is logged after the fallback response
CatchBlockLogsLast(tr, err, prod) ==
  LET f == Fallback(tr, err, prod)
  IN IF f.fault # NoFault THEN f
     ELSE [trace |-> ConsoleError(f.trace, err), fault |-> NoFault]

\* lines 52-78: the catch block
CatchBlock(tr, err, prod) == Fallback(ConsoleError(tr, err), err, prod)

(***************************************************************************)
(* Inputs: the requests the host delivers and what the handler does.       *)
(***************************************************************************)
NumCycles == 2
Cycles == 1..NumCycles

EnvValues == {"production", "development"}

\* the chunks the stream delivers: 'a', and each of the two bytes of U+00E9
Chunks == {<<97>>, <<195>>, <<169>>}

RECURSIVE SeqsUpTo(_, _)
\* the sequences over S of length at most n
SeqsUpTo(S, n) ==
  IF n = 0 THEN {<<>>}
  ELSE LET shorter == SeqsUpTo(S, n - 1)
       IN shorter \cup {Append(q, e) : q \in shorter, e \in S}

UrlValues == {Undef, Str(<<>>), Str(<<"/", "g">>)}
MethodValues == {Undef, Str(<<>>), Str(<<"P", "O", "S", "T">>)}
HeaderValues == {Obj(<< <<(<<"h", "o", "s", "t">>), Str(<<"x">>)>> >>)}

Requests ==
  [url : UrlValues, method : MethodValues, headers : HeaderValues,
   chunks : SeqsUpTo(Chunks, MaxChunks)]

\* the requests of the specification with fairness: no body, or one chunk
LiveRequests ==
  [url : UrlValues, method : MethodValues, headers : HeaderValues,
   chunks : {<<>>, <<(<<97>>)>>}]

InitOf(status, statusText, headers) ==
  [t |-> "init", status |-> status, statusText |-> statusText, headers |-> headers]

\* what the handler's promise resolves with: [body, init]
Resolutions ==
  { <<Str(<<"{", "}">>),
      InitOf(Num(200), Undef, Obj(<< <<ContentTypeName, Str(ContentTypeJson)>> >>))>>,
    <<Str(<<>>), InitOf(Num(400), Str(<<"B", "a", "d">>), Obj(<<>>))>>,
    \* a status code writeHead rejects
    <<Str(<<"{", "}">>), InitOf(Num(0), Undef, Obj(<<>>))>>,
    \* a body end rejects
    <<Num(7), InitOf(Num(200), Undef, Obj(<<>>))>>,
    \* no init
    <<Str(<<"{", "}">>), Undef>> }

\* what the handler throws or its promise rejects with
Faults ==
  { NewError(<<"b", "\"">>), NewError(<<"c">>), Str(<<"s">>),
    Obj(<< <<(<<"k">>), Str(<<"v">>)>> >>), Circular, Undef }

Pending == [kind |-> "pending"]

Outcomes ==
  {[kind |-> "resolve", value |-> v] : v \in Resolutions}
    \cup {[kind |-> "reject", value |-> f] : f \in Faults}

(***************************************************************************)
(* State.                                                                  *)
(***************************************************************************)
VARIABLES
  env,        \* process.env.NODE_ENV
  created,    \* createHandler has returned the listener
  isProd,     \* line 28
  pc,         \* per cycle: "idle", "awaiting", "done" (the listener's promise
              \* resolved) or "rejected" (it rejected)
  req,        \* per cycle: the inbound request
  stream,     \* per cycle: the inbound body stream
  listeners,  \* per cycle: one entry per body() call: its `body` variable
              \* (line 44) and whether its promise has resolved
  settled,    \* per cycle: how the call of handle ended, Pending until then
  trace       \* per cycle: the external calls made, in order

vars == <<env, created, isProd, pc, req, stream, listeners, settled, trace>>

NoRequest == [url |-> Undef, method |-> Undef, headers |-> Undef, chunks |-> <<>>]
\* mutant of NoStream: the stream flows from the start, as if the listener
\* subscribed to it before calling handle
EagerStream == [pending |-> <<>>, flowing |-> TRUE, ended |-> FALSE, aborted |-> FALSE]

NoStream == [pending |-> <<>>, flowing |-> FALSE, ended |-> FALSE, aborted |-> FALSE]

Init ==
  /\ env \in EnvValues
  /\ created = FALSE
  /\ isProd = FALSE
  /\ pc = [c \in Cycles |-> "idle"]
  /\ req = [c \in Cycles |-> NoRequest]
  /\ stream = [c \in Cycles |-> NoStream]
  /\ listeners = [c \in Cycles |-> <<>>]
  /\ settled = [c \in Cycles |-> Pending]
  /\ trace = [c \in Cycles |-> <<>>]

(***************************************************************************)
(* Actions.                                                                *)
(***************************************************************************)
\* the environment variable changes
SetEnv(v) ==
  /\ v # env
  /\ env' = v
  /\ UNCHANGED <<created, isProd, pc, req, stream, listeners, settled, trace>>

\* lines 25-30
CreateHandler ==
  /\ ~created
  /\ created' = TRUE
  /\ isProd' = (env = "production")
  /\ UNCHANGED <<env, pc, req, stream, listeners, settled, trace>>

\* mutant of Caught: the mode is read from the environment in the catch block
CaughtReadsEnv(c, tr, err) ==
  \E r \in {CatchBlock(tr, err, env = "production")} :
    /\ trace' = [trace EXCEPT ![c] = r.trace]
    /\ pc' = [pc EXCEPT ![c] = IF r.fault = NoFault THEN "done" ELSE "rejected"]

\* the catch block runs to its end: the listener's promise resolves, or rejects
\* with what the catch block itself threw
\* (r is bound to the value of CatchBlock, evaluated once)
Caught(c, tr, err) ==
  \E r \in {CatchBlock(tr, err, isProd)} :
    /\ trace' = [trace EXCEPT ![c] = r.trace]
    /\ pc' = [pc EXCEPT ![c] = IF r.fault = NoFault THEN "done" ELSE "rejected"]

\* the host calls requestListener(req, res): lines 31-50, up to the await
Invoke(c, r) ==
  /\ created
  /\ pc[c] = "idle"
  /\ req' = [req EXCEPT ![c] = r]
  /\ stream' = [stream EXCEPT ![c] = [NoStream EXCEPT !.pending = r.chunks]]
  /\ IF Validate(r) # NoFault
     THEN /\ Caught(c, trace[c], Validate(r))
          /\ UNCHANGED settled
     ELSE LET tr == Append(trace[c], [op |-> "handle", desc |-> Descriptor(c, r)])
          IN \/ /\ trace' = [trace EXCEPT ![c] = tr]
                /\ pc' = [pc EXCEPT ![c] = "awaiting"]
                /\ UNCHANGED settled
             \/ \E f \in Faults :
                  \* handle throws before returning a promise
                  /\ settled' = [settled EXCEPT ![c] = [kind |-> "throw", value |-> f]]
                  /\ Caught(c, tr, f)
  /\ UNCHANGED <<env, created, isProd, listeners>>

\* lines 42-47: the handler calls body(): a new promise with its own `body`,
\* and two listeners on the request; a 'data' listener makes the stream flow
BodyCall(ls) == Append(ls, [body |-> <<>>, resolved |-> FALSE])

HandlerCallsBody(c) ==
  /\ pc[c] = "awaiting"
  /\ settled[c] = Pending
  /\ Len(listeners[c]) < MaxBodyCalls
  /\ listeners' = [listeners EXCEPT ![c] = BodyCall(listeners[c])]
  /\ stream' = [stream EXCEPT ![c].flowing = TRUE]
  /\ UNCHANGED <<env, created, isProd, pc, req, settled, trace>>

\* line 45: every 'data' listener appends the chunk to its `body`
OnData(ls, chunk) ==
  [i \in 1..Len(ls) |-> [ls[i] EXCEPT !.body = ls[i].body \o ChunkToString(chunk)]]

\* line 46: every 'end' listener resolves its promise with its `body`
OnEnd(ls) == [i \in 1..Len(ls) |-> [ls[i] EXCEPT !.resolved = TRUE]]

\* mutant of StreamData: one `body` shared by all the cycles, every chunk is
\* appended for the listeners of every cycle
StreamDataShared(c) ==
  /\ stream[c].flowing
  /\ ~stream[c].aborted
  /\ stream[c].pending # <<>>
  /\ listeners' = [d \in Cycles |-> OnData(listeners[d], Head(stream[c].pending))]
  /\ stream' = [stream EXCEPT ![c].pending = Tail(stream[c].pending)]
  /\ UNCHANGED <<env, created, isProd, pc, req, settled, trace>>

\* the flowing stream emits 'data' with its next chunk
StreamData(c) ==
  /\ stream[c].flowing
  /\ ~stream[c].aborted
  /\ stream[c].pending # <<>>
  /\ listeners' = [listeners EXCEPT ![c] = OnData(listeners[c], Head(stream[c].pending))]
  /\ stream' = [stream EXCEPT ![c].pending = Tail(stream[c].pending)]
  /\ UNCHANGED <<env, created, isProd, pc, req, settled, trace>>

\* mutant of StreamEnd: 'end' is emitted on an aborted stream too
StreamEndAfterAbort(c) ==
  /\ stream[c].flowing
  /\ ~stream[c].ended
  /\ stream[c].pending = <<>>
  /\ listeners' = [listeners EXCEPT ![c] = OnEnd(listeners[c])]
  /\ stream' = [stream EXCEPT ![c].ended = TRUE]
  /\ UNCHANGED <<env, created, isProd, pc, req, settled, trace>>

\* the drained stream emits 'end', once
StreamEnd(c) ==
  /\ stream[c].flowing
  /\ ~stream[c].aborted
  /\ ~stream[c].ended
  /\ stream[c].pending = <<>>
  /\ listeners' = [listeners EXCEPT ![c] = OnEnd(listeners[c])]
  /\ stream' = [stream EXCEPT ![c].ended = TRUE]
  /\ UNCHANGED <<env, created, isProd, pc, req, settled, trace>>

\* the connection is aborted: the stream emits neither 'data' nor 'end' again
StreamAbort(c) ==
  /\ pc[c] # "idle"
  /\ ~stream[c].aborted
  /\ ~stream[c].ended
  /\ stream' = [stream EXCEPT ![c].aborted = TRUE]
  /\ UNCHANGED <<env, created, isProd, pc, req, listeners, settled, trace>>

\* the promise handle returned settles
HandlerSettles(c, o) ==
  /\ pc[c] = "awaiting"
  /\ settled[c] = Pending
  /\ settled' = [settled EXCEPT ![c] = o]
  /\ UNCHANGED <<env, created, isProd, pc, req, stream, listeners, trace>>

\* line 38: the await lets the listener go on once the promise has settled
AwaitDone(s) == s # Pending

\* mutant of Resume: no await; what handle returned is destructured at once,
\* which throws on a promise
ResumeWithoutAwait(c) ==
  /\ pc[c] = "awaiting"
  /\ Caught(c, trace[c], ErrUndefinedRead)
  /\ UNCHANGED <<env, created, isProd, req, stream, listeners, settled>>

\* mutant of Resume: line 51 outside the try block, what it throws is not caught
ResumeWriteEscapes(c) ==
  /\ pc[c] = "awaiting"
  /\ AwaitDone(settled[c])
  /\ IF settled[c].kind = "resolve"
     THEN \E w \in {SuccessWrite(trace[c], settled[c].value[1], settled[c].value[2])} :
            /\ trace' = [trace EXCEPT ![c] = w.trace]
            /\ pc' = [pc EXCEPT ![c] = IF w.fault = NoFault THEN "done" ELSE "rejected"]
     ELSE Caught(c, trace[c], settled[c].value)
  /\ UNCHANGED <<env, created, isProd, req, stream, listeners, settled>>

\* lines 38, 51-78: the listener continues after the await
Resume(c) ==
  /\ pc[c] = "awaiting"
  /\ AwaitDone(settled[c])
  /\ IF settled[c].kind = "resolve"
     THEN \E w \in {SuccessWrite(trace[c], settled[c].value[1], settled[c].value[2])} :
            IF w.fault = NoFault
            THEN /\ trace' = [trace EXCEPT ![c] = w.trace]
                 /\ pc' = [pc EXCEPT ![c] = "done"]
            ELSE Caught(c, w.trace, w.fault)
     ELSE Caught(c, trace[c], settled[c].value)
  /\ UNCHANGED <<env, created, isProd, req, stream, listeners, settled>>

CycleStep(c, requests) ==
  \/ \E r \in requests : Invoke(c, r)
  \/ HandlerCallsBody(c)
  \/ StreamData(c)
  \/ StreamEnd(c)
  \/ StreamAbort(c)
  \/ \E o \in Outcomes : HandlerSettles(c, o)
  \/ Resume(c)

\* one cycle, with every input
Next ==
  \/ CreateHandler
  \/ \E v \in EnvValues : SetEnv(v)
  \/ CycleStep(1, Requests)

Spec == Init /\ [][Next]_vars

\* one cycle, with the requests of LiveRequests
NextLive ==
  \/ CreateHandler
  \/ \E v \in EnvValues : SetEnv(v)
  \/ CycleStep(1, LiveRequests)

\* the continuation of an await whose promise has settled is a microtask, which
\* the event loop runs
FairSpec == Init /\ [][NextLive]_vars /\ WF_vars(Resume(1))

(***************************************************************************)
(* Concurrent cycles of the one listener.  The request of cycle c carries  *)
(* a body of one chunk, the byte 96 + c ('a', 'b', ...), so that a chunk   *)
(* names the request it belongs to; the handler calls body() at most once  *)
(* and its promise resolves with a response or rejects with a fault the    *)
(* diagnostic fallback cannot serialise.                                   *)
(***************************************************************************)
ConcRequest(c) ==
  [url |-> Str(<<"/", "g">>), method |-> Str(<<"P", "O", "S", "T">>),
   headers |-> Obj(<< <<(<<"h", "o", "s", "t">>), Str(<<"x">>)>> >>),
   chunks |-> << <<96 + c>> >>]

ConcOutcomes ==
  { [kind |-> "resolve",
     value |-> <<Str(<<"{", "}">>), InitOf(Num(200), Undef, Obj(<<>>))>>],
    [kind |-> "reject", value |-> Circular] }

\* the outcomes of the specification with fairness: the promise resolves (the
\* faults are those handle throws at once)
LiveConcOutcomes ==
  { [kind |-> "resolve",
     value |-> <<Str(<<"{", "}">>), InitOf(Num(200), Undef, Obj(<<>>))>>] }

ConcStep(c, outcomes) ==
  \/ Invoke(c, ConcRequest(c))
  \/ listeners[c] = <<>> /\ HandlerCallsBody(c)
  \/ StreamData(c)
  \/ StreamEnd(c)
  \/ StreamAbort(c)
  \/ \E o \in outcomes : HandlerSettles(c, o)
  \/ Resume(c)

\* the steps of all the cycles interleave
NextConc ==
  \/ CreateHandler
  \/ \E v \in EnvValues : SetEnv(v)
  \/ \E c \in Cycles : ConcStep(c, ConcOutcomes)

SpecConc == Init /\ [][NextConc]_vars

\* the same with the outcomes of LiveConcOutcomes and an environment that
\* does not change
NextLiveConc ==
  \/ CreateHandler
  \/ \E c \in Cycles : ConcStep(c, LiveConcOutcomes)

\* the continuation of every settled await is run by the event loop
FairConc == Init /\ [][NextLiveConc]_vars /\ \A c \in Cycles : WF_vars(Resume(c))

(***************************************************************************)
(* Vocabulary of the properties.                                           *)
(***************************************************************************)
Started(c) == pc[c] # "idle"
Over(c) == pc[c] \in {"done", "rejected"}
ValidRequest(r) == ~Falsy(r.url) /\ ~Falsy(r.method)

IsWrite(e) == e.op \in {"writeHead", "end"}
\* the calls made on the outgoing response, and those of them that returned
WriteCalls(tr) == SelectSeq(tr, IsWrite)
IsOkWrite(e) == IsWrite(e) /\ ~e.threw
OkWrites(tr) == SelectSeq(tr, IsOkWrite)

Count(tr, op) == Cardinality({i \in 1..Len(tr) : tr[i].op = op})
CountOk(tr, op) == Cardinality({i \in 1..Len(tr) : tr[i].op = op /\ ~tr[i].threw})
Logged(tr) == Count(tr, "console.error") >= 1
LogIndex(tr) == CHOOSE i \in 1..Len(tr) : tr[i].op = "console.error"

HeadCall(args, threw) == [op |-> "writeHead", args |-> args, threw |-> threw]
EndCall(args, threw) == [op |-> "end", args |-> args, threw |-> threw]

JsonContentType == Obj(<< <<ContentTypeName, Str(ContentTypeJson)>> >>)

\* {"errors":[{"message":<message>,"stack":<stack>}]}
ExpectedDiagnosticBody(err) ==
  <<"{", "\"", "e", "r", "r", "o", "r", "s", "\"", ":", "[", "{", "\"", "m", "e", "s", "s", "a", "g", "e", "\"", ":">>
    \o JsonQuote(err.message)
    \o <<",", "\"", "s", "t", "a", "c", "k", "\"", ":">>
    \o JsonQuote(err.stack)
    \o <<"}", "]", "}">>

\* the texts of the chunks, one after the other
ChunkTexts(chunks) == Concat([i \in 1..Len(chunks) |-> ChunkToString(chunks[i])])

(***************************************************************************)
(* C1. When method and URL are present and the handler resolves with       *)
(* (body, init), the listener calls writeHead with exactly init.status,    *)
(* init.statusText and init.headers, whatever they are (nothing is         *)
(* validated: an out-of-range status is passed on and it is writeHead that *)
(* throws); for a status writeHead accepts and a string body, that call    *)
(* and end(body) are the only calls on the response, both return, and      *)
(* nothing is logged.                                                      *)
(***************************************************************************)
C1_SuccessForwardsHandlerResponse ==
  \A c \in Cycles :
    (Over(c) /\ settled[c].kind = "resolve" /\ settled[c].value[2] # Undef) =>
      LET body == settled[c].value[1]
          init == settled[c].value[2]
          w == WriteCalls(trace[c])
      IN /\ ValidRequest(req[c])
         /\ Len(w) >= 1
         /\ w[1] = HeadCall(<<init.status, init.statusText, init.headers>>,
                            ~ValidStatus(init.status))
         /\ (ValidStatus(init.status) /\ body.t = "string") =>
              /\ w = <<HeadCall(<<init.status, init.statusText, init.headers>>, FALSE),
                       EndCall(<<body>>, FALSE)>>
              /\ ~Logged(trace[c])
              /\ pc[c] = "done"

\* a cycle ended on the success path, with a status text forwarded
C1_Witness ==
  \E c \in Cycles :
    /\ pc[c] = "done"
    /\ settled[c].kind = "resolve"
    /\ settled[c].value[2] # Undef
    /\ settled[c].value[2].statusText # Undef
    /\ ~Logged(trace[c])
    /\ Finished(trace[c])

(***************************************************************************)
(* C2 (as claimed). The promise returned by requestListener never rejects. *)
(***************************************************************************)
C2_NeverRejects == \A c \in Cycles : pc[c] # "rejected"

(***************************************************************************)
(* C2 (amended). Every fault raised in the try block is caught and logged; *)
(* the promise rejects only when the catch block itself throws: when the   *)
(* fallback writeHead finds the head already written by the success path,  *)
(* or, in the diagnostic mode, when JSON.stringify throws on the fault     *)
(* after the head was written.  A failing cycle whose promise resolves has *)
(* written and ended the fallback response with status 500.                *)
(***************************************************************************)
C2_RejectsOnlyWhenCatchThrows ==
  \A c \in Cycles :
    LET tr == trace[c]
        n == Len(tr)
    IN /\ (Over(c) /\ ~ValidRequest(req[c])) => Logged(tr)
       /\ (Over(c) /\ settled[c].kind \in {"reject", "throw"}) =>
            /\ Logged(tr)
            /\ tr[LogIndex(tr)].err = settled[c].value
       /\ pc[c] = "rejected" =>
            /\ Count(tr, "console.error") = 1
            /\ tr[n].op = "writeHead"
            /\ \/ tr[n].threw /\ HeadersSent(SubSeq(tr, 1, LogIndex(tr)))
               \/ /\ ~tr[n].threw
                  /\ ~isProd
                  /\ JsonThrows(tr[LogIndex(tr)].err)
       /\ (pc[c] = "done" /\ Logged(tr)) =>
            /\ Count(tr, "console.error") = 1
            /\ n >= 2
            /\ tr[n - 1].op = "writeHead" /\ ~tr[n - 1].threw
            /\ tr[n - 1].args[1] = Num(500)
            /\ tr[n].op = "end" /\ ~tr[n].threw

\* the promise rejected because JSON.stringify threw on the fault
C2_Witness ==
  \E c \in Cycles :
    /\ pc[c] = "rejected"
    /\ settled[c] = [kind |-> "reject", value |-> Circular]
    /\ HeadersSent(trace[c])

(***************************************************************************)
(* C3. A request whose method or URL is missing (undefined or the empty    *)
(* string) never reaches the handler, and a response with status 500 is    *)
(* written and ended.                                                      *)
(***************************************************************************)
C3_MissingFieldNeverReachesHandler ==
  \A c \in Cycles :
    (Started(c) /\ ~ValidRequest(req[c])) =>
      LET w == WriteCalls(trace[c])
      IN /\ Count(trace[c], "handle") = 0
         /\ settled[c] = Pending
         /\ pc[c] = "done"
         /\ Len(w) = 2
         /\ w[1].op = "writeHead" /\ ~w[1].threw /\ w[1].args[1] = Num(500)
         /\ w[2].op = "end" /\ ~w[2].threw

\* a request with a method and the empty string for URL got its 500
C3_Witness ==
  \E c \in Cycles :
    /\ pc[c] = "done"
    /\ req[c].url = Str(<<>>)
    /\ req[c].method = Str(<<"P", "O", "S", "T">>)
    /\ Finished(trace[c])

(***************************************************************************)
(* C4 (as claimed). Every invocation makes exactly one writeHead call      *)
(* followed by one end call on the response, on every path.                *)
(***************************************************************************)
C4_ExactlyOneWriteAndTerminate ==
  \A c \in Cycles :
    Over(c) =>
      /\ Len(WriteCalls(trace[c])) = 2
      /\ WriteCalls(trace[c])[1].op = "writeHead"
      /\ WriteCalls(trace[c])[2].op = "end"

(***************************************************************************)
(* C4 (amended). Every invocation whose promise resolves has made exactly  *)
(* one writeHead that returned, at once followed by the one end that       *)
(* returned, as its last two calls; one whose promise rejects has ended    *)
(* the response zero times; no invocation writes the head or ends the      *)
(* response twice.  A writeHead or an end of the success path that threw   *)
(* may come before the fallback's writeHead.                               *)
(***************************************************************************)
C4_OneCompletedWriteWhenResolved ==
  \A c \in Cycles :
    LET tr == trace[c]
        n == Len(tr)
    IN /\ CountOk(tr, "writeHead") <= 1
       /\ CountOk(tr, "end") <= 1
       /\ Count(tr, "writeHead") <= 2
       /\ Count(tr, "end") <= 1
       /\ pc[c] = "done" =>
            /\ OkWrites(tr) = <<tr[n - 1], tr[n]>>
            /\ tr[n - 1].op = "writeHead"
            /\ tr[n].op = "end"
       /\ pc[c] = "rejected" => CountOk(tr, "end") = 0
       /\ pc[c] = "awaiting" => WriteCalls(tr) = <<>>

\* a failing cycle that wrote its one response after a writeHead that threw
C4_Witness ==
  \E c \in Cycles :
    /\ pc[c] = "done"
    /\ Count(trace[c], "writeHead") = 2
    /\ CountOk(trace[c], "end") = 1

(***************************************************************************)
(* C5. In the diagnostic mode, when the handler's promise rejects with an  *)
(* Error, the calls on the response are writeHead(500, {content-type:      *)
(* application/json; charset=utf-8}) and end of the text                   *)
(* {"errors":[{"message":...,"stack":...}]}.                               *)
(***************************************************************************)
C5_DiagnosticErrorResponse ==
  \A c \in Cycles :
    (Over(c) /\ ~isProd /\ settled[c].kind = "reject" /\ settled[c].value.t = "Error") =>
      /\ WriteCalls(trace[c]) =
           <<HeadCall(<<Num(500), JsonContentType>>, FALSE),
             EndCall(<<Str(ExpectedDiagnosticBody(settled[c].value))>>, FALSE)>>
      /\ pc[c] = "done"

\* the Error whose message holds a quotation mark was serialised
C5_Witness ==
  \E c \in Cycles :
    /\ pc[c] = "done"
    /\ ~isProd
    /\ settled[c] = [kind |-> "reject", value |-> NewError(<<"b", "\"">>)]
    /\ WriteCalls(trace[c])[2].args[1].s =
         <<"{", "\"", "e", "r", "r", "o", "r", "s", "\"", ":", "[", "{", "\"", "m", "e", "s", "s", "a", "g", "e", "\"", ":", "\"", "b", "\\", "\"", "\"", ",", "\"", "s", "t", "a", "c", "k", "\"", ":", "\"", "E", ":", "b", "\\", "\"", "\\", "n", "@", "\"", "}", "]", "}">>

(***************************************************************************)
(* C6 (as claimed). In production every failing cycle writes status 500,   *)
(* no body and no headers.                                                 *)
(***************************************************************************)
C6_ProductionAlwaysBare500 ==
  \A c \in Cycles :
    (Over(c) /\ isProd /\ Logged(trace[c])) =>
      OkWrites(trace[c]) = <<HeadCall(<<Num(500)>>, FALSE), EndCall(<<>>, FALSE)>>

(***************************************************************************)
(* C6 (amended). In production a failing cycle that had not written the    *)
(* head before the fault writes status 500 with no headers and ends with   *)
(* no body, the same for every fault; one that had (end threw after the    *)
(* success path's writeHead) gets a fallback writeHead that throws, and    *)
(* nothing more is written.  Either way the calls made after the fault do  *)
(* not depend on the fault.                                                *)
(***************************************************************************)
C6_ProductionOpaqueFallback ==
  \A c \in Cycles :
    (Over(c) /\ isProd /\ Logged(trace[c])) =>
      LET tr == trace[c]
          k == LogIndex(tr)
          before == SubSeq(tr, 1, k - 1)
          after == SubSeq(tr, k + 1, Len(tr))
      IN IF HeadersSent(before)
         THEN after = <<HeadCall(<<Num(500)>>, TRUE)>> /\ pc[c] = "rejected"
         ELSE /\ after = <<HeadCall(<<Num(500)>>, FALSE), EndCall(<<>>, FALSE)>>
              /\ OkWrites(tr) = after
              /\ pc[c] = "done"

\* in production the handler rejected with an Error and the bare 500 was written
C6_Witness ==
  \E c \in Cycles :
    /\ pc[c] = "done"
    /\ isProd
    /\ settled[c].kind = "reject"
    /\ settled[c].value.t = "Error"
    /\ Finished(trace[c])

(***************************************************************************)
(* C7 (as claimed). The promise of the first body() call of a cycle        *)
(* resolves only once the stream has emitted 'end', and with the text of   *)
(* the request body: the concatenation of all its chunks, in their order   *)
(* of arrival.                                                             *)
(***************************************************************************)
C7_BodyIsTextOfRequestBody ==
  \A c \in Cycles :
    Len(listeners[c]) >= 1 =>
      LET first == listeners[c][1]
      IN first.resolved =>
           /\ stream[c].ended
           /\ first.body = Utf8Decode(Concat(req[c].chunks))

(***************************************************************************)
(* What holds in place of C7: the first body() call resolves exactly when  *)
(* the stream emits 'end', with the texts of the chunks in their order of  *)
(* arrival, each chunk decoded on its own by `body += chunk`.              *)
(***************************************************************************)
FirstBodyCallIsChunkTexts ==
  \A c \in Cycles :
    Len(listeners[c]) >= 1 =>
      LET first == listeners[c][1]
      IN /\ first.resolved <=> stream[c].ended
         /\ first.resolved =>
              /\ stream[c].pending = <<>>
              /\ first.body = ChunkTexts(req[c].chunks)

(***************************************************************************)
(* C8 (as claimed). Every body() call of a cycle resolves once the stream  *)
(* has ended, and all of them resolve to the texts of all the chunks.      *)
(***************************************************************************)
C8_EveryBodyCallSameFullBody ==
  \A c \in Cycles :
    \A i \in 1..Len(listeners[c]) :
      listeners[c][i].resolved => listeners[c][i].body = ChunkTexts(req[c].chunks)

(***************************************************************************)
(* C9 (as claimed). Whenever the listener's promise has settled, a         *)
(* response has been written and ended.                                    *)
(***************************************************************************)
C9_SettledImpliesResponseEnded ==
  \A c \in Cycles : Over(c) => Finished(trace[c])

(***************************************************************************)
(* C9 (amended). Whenever the listener's promise resolves, a response has  *)
(* been written and ended, and that end is the cycle's last call; and once *)
(* the call of handle has settled, the listener's promise settles: it      *)
(* resolves, or it rejects when the catch block throws.                    *)
(***************************************************************************)
C9_ResolvedAfterResponseAndSettles ==
  /\ [](\A c \in Cycles :
          pc[c] = "done" =>
            /\ Finished(trace[c])
            /\ trace[c][Len(trace[c])].op = "end")
  /\ \A c \in Cycles : (settled[c] # Pending) ~> Over(c)

\* the handler's promise resolved and the listener's did after the write
C9_Witness ==
  \E c \in Cycles :
    /\ pc[c] = "done"
    /\ settled[c].kind = "resolve"
    /\ trace[c][Len(trace[c])] = EndCall(<<Str(<<>>)>>, FALSE)

(***************************************************************************)
(* C10. In every cycle handle is called at most once, as the first call    *)
(* of the cycle and only for a request that passed the validation; the     *)
(* response is written to only after the call of handle has settled, or    *)
(* with no call of handle when the validation failed.                      *)
(***************************************************************************)
C10_StepsInOrder ==
  \A c \in Cycles :
    LET tr == trace[c]
    IN /\ Count(tr, "handle") <= 1
       /\ Count(tr, "handle") = 1 =>
            /\ tr[1].op = "handle"
            /\ ValidRequest(req[c])
       /\ (Started(c) /\ ValidRequest(req[c])) => Count(tr, "handle") = 1
       /\ WriteCalls(tr) # <<>> =>
            \/ settled[c] # Pending
            \/ Count(tr, "handle") = 0 /\ ~ValidRequest(req[c])
       /\ pc[c] = "awaiting" => tr = <<tr[1]>>

\* a cycle whose handler rejected: one call of handle, then the log and the writes
C10_Witness ==
  \E c \in Cycles :
    /\ pc[c] = "done"
    /\ settled[c].kind = "reject"
    /\ Count(trace[c], "handle") = 1
    /\ Len(trace[c]) = 4

(***************************************************************************)
(* The fault a cycle's try block raised, NoFault when it raised none: the  *)
(* fault of the validation, what handle threw or rejected with, or what    *)
(* reading the handler's result or writing its response threw.             *)
(***************************************************************************)
TryFault(c) ==
  IF Falsy(req[c].url) THEN NewError(MissingUrlMessage)
  ELSE IF Falsy(req[c].method) THEN NewError(MissingMethodMessage)
  ELSE IF settled[c].kind \in {"reject", "throw"} THEN settled[c].value
  ELSE IF settled[c].kind = "pending" THEN NoFault
  ELSE IF settled[c].value[2] = Undef THEN ErrUndefinedRead
  ELSE IF ~ValidStatus(settled[c].value[2].status) THEN ErrInvalidStatusCode
  ELSE IF settled[c].value[1].t # "string" THEN ErrInvalidArgType
  ELSE NoFault

\* the cycle failed: its try block raised a fault
Failing(c) == TryFault(c) # NoFault

(***************************************************************************)
(* C11. Every cycle that has ended after a fault of its try block has      *)
(* made exactly one console.error call, with that fault, and the fallback  *)
(* response is written after it: the call next to the log is the fallback  *)
(* writeHead(500), and the only calls before the log are handle and, when  *)
(* the handler resolved, the writes of the success path.  A cycle that     *)
(* ended with no fault has logged nothing; no cycle logs before it ends.   *)
(***************************************************************************)
C11_FailureLoggedOnceBeforeFallback ==
  \A c \in Cycles :
    LET tr == trace[c]
    IN /\ Count(tr, "console.error") <= 1
       /\ (Over(c) /\ Failing(c)) =>
            /\ Count(tr, "console.error") = 1
            /\ tr[LogIndex(tr)].err = TryFault(c)
            /\ LogIndex(tr) < Len(tr)
            /\ tr[LogIndex(tr) + 1].op = "writeHead"
            /\ tr[LogIndex(tr) + 1].args[1] = Num(500)
            /\ \A i \in 1..(LogIndex(tr) - 1) :
                 \/ tr[i].op = "handle"
                 \/ IsWrite(tr[i]) /\ settled[c].kind = "resolve"
       /\ (Over(c) /\ ~Failing(c)) => ~Logged(tr)
       /\ ~Over(c) => ~Logged(tr)

\* a cycle whose handler rejected with a string logged it, then wrote the fallback
C11_Witness ==
  \E c \in Cycles :
    /\ pc[c] = "done"
    /\ settled[c] = [kind |-> "reject", value |-> Str(<<"s">>)]
    /\ Len(trace[c]) = 4
    /\ trace[c][2] = [op |-> "console.error", err |-> Str(<<"s">>)]
    /\ trace[c][3].op = "writeHead"

\* the arguments of the fallback writeHead, by mode (lines 61, 64)
FallbackHeadArgs == IF isProd THEN <<Num(500)>> ELSE <<Num(500), JsonContentType>>

\* the handler resolved and line 51 threw
SuccessWriteThrew(c) == settled[c].kind = "resolve" /\ Failing(c)

(***************************************************************************)
(* C12 (as claimed). When the handler resolves and writing its response    *)
(* throws, the fault is logged once, a fallback response with status 500   *)
(* is written and ended, and the listener's promise does not reject.       *)
(***************************************************************************)
C12_SuccessWriteFaultGetsFallback ==
  \A c \in Cycles :
    (Over(c) /\ SuccessWriteThrew(c)) =>
      LET tr == trace[c]
          n == Len(tr)
      IN /\ Count(tr, "console.error") = 1
         /\ pc[c] = "done"
         /\ tr[n - 1] = HeadCall(FallbackHeadArgs, FALSE)
         /\ tr[n].op = "end" /\ ~tr[n].threw

(***************************************************************************)
(* C12 (amended). When the handler resolves and line 51 throws, the fault  *)
(* is caught and logged once.  If it was thrown before the head was        *)
(* written (no init, or writeHead refused the status), the fallback        *)
(* writeHead(500) and end follow and the promise resolves.  If it was      *)
(* thrown by end, after the handler's head was written, the fallback       *)
(* writeHead throws, nothing is ended and the promise rejects.             *)
(***************************************************************************)
C12_SuccessWriteFaultCaughtFallbackIfHeadUnsent ==
  \A c \in Cycles :
    (Over(c) /\ SuccessWriteThrew(c)) =>
      LET tr == trace[c]
          k == LogIndex(tr)
          body == settled[c].value[1]
          init == settled[c].value[2]
          before == SelectSeq(SubSeq(tr, 1, k - 1), IsWrite)
          after == SubSeq(tr, k + 1, Len(tr))
      IN /\ Count(tr, "console.error") = 1
         /\ tr[k].err = TryFault(c)
         /\ IF init = Undef
            THEN before = <<>>
            ELSE IF ~ValidStatus(init.status)
            THEN before = <<HeadCall(<<init.status, init.statusText, init.headers>>, TRUE)>>
            ELSE before = <<HeadCall(<<init.status, init.statusText, init.headers>>, FALSE),
                            EndCall(<<body>>, TRUE)>>
         /\ IF HeadersSent(before)
            THEN /\ after = <<HeadCall(FallbackHeadArgs, TRUE)>>
                 /\ pc[c] = "rejected"
                 /\ ~Finished(tr)
            ELSE /\ Len(after) = 2
                 /\ after[1] = HeadCall(FallbackHeadArgs, FALSE)
                 /\ after[2].op = "end" /\ ~after[2].threw
                 /\ pc[c] = "done"

\* end threw on the handler's body after the head was written: no fallback
C12_Witness ==
  \E c \in Cycles :
    /\ pc[c] = "rejected"
    /\ settled[c].kind = "resolve"
    /\ settled[c].value[1] = Num(7)
    /\ Len(WriteCalls(trace[c])) = 3
    /\ WriteCalls(trace[c])[2] = EndCall(<<Num(7)>>, TRUE)
    /\ WriteCalls(trace[c])[3].threw

(***************************************************************************)
(* C13. Until the handler calls body(), the request has no listener of the *)
(* adapter, its stream does not flow and none of its chunks is consumed;   *)
(* and once the call of handle has settled the listener can go on to write *)
(* the response, whatever the state of the stream: a cycle whose handler   *)
(* never called body() ends with the whole body still unread.              *)
(***************************************************************************)
C13_BodyDrainingIsLazy ==
  \A c \in Cycles :
    /\ listeners[c] = <<>> =>
         /\ ~stream[c].flowing
         /\ ~stream[c].ended
         /\ stream[c].pending = req[c].chunks
    /\ (pc[c] = "awaiting" /\ settled[c] # Pending) => ENABLED Resume(c)
    /\ (pc[c] = "awaiting" /\ settled[c] = Pending) => ~ENABLED Resume(c)

\* a response was written and ended while the body waited unread
C13_Witness ==
  \E c \in Cycles :
    /\ pc[c] = "done"
    /\ settled[c].kind = "resolve"
    /\ Finished(trace[c])
    /\ listeners[c] = <<>>
    /\ stream[c].pending = <<(<<97>>)>>
    /\ ~stream[c].ended

\* the number of times the adapter subscribed to the request's stream: every
\* entry of listeners is one req.on('data') with one req.on('end')
Subscriptions(c) == Len(listeners[c])

(***************************************************************************)
(* C14 (as claimed). In every cycle the adapter subscribes to the inbound  *)
(* stream at most once, however many times the handler calls body(): a     *)
(* subscription exists exactly when body() was called and the stream       *)
(* flows.                                                                  *)
(***************************************************************************)
C14_SubscribedAtMostOnce ==
  \A c \in Cycles :
    /\ Subscriptions(c) <= 1
    /\ Subscriptions(c) = 1 <=> stream[c].flowing

\* the handler waits for a body() promise that has not resolved
Draining(c) ==
  /\ listeners[c] # <<>>
  /\ \A i \in 1..Len(listeners[c]) : ~listeners[c][i].resolved
  /\ settled[c] = Pending

AbortedWhileDraining(c) == stream[c].aborted /\ Draining(c)

(***************************************************************************)
(* C15 (as claimed). When the connection of a cycle is aborted while its   *)
(* body() promise is pending, that promise does not settle and the cycle   *)
(* stays suspended with nothing written and nothing logged, and every      *)
(* other cycle that has completed has written and ended its own response.  *)
(***************************************************************************)
C15_AbortSuspendsOthersRespond ==
  \A c \in Cycles :
    AbortedWhileDraining(c) =>
      /\ ~stream[c].ended
      /\ pc[c] = "awaiting"
      /\ WriteCalls(trace[c]) = <<>>
      /\ ~Logged(trace[c])
      /\ \A d \in Cycles \ {c} : Over(d) => Finished(trace[d])

(***************************************************************************)
(* C15 (amended). After an abort the stream emits nothing more: no body()  *)
(* promise of that cycle has resolved or ever resolves, and while the      *)
(* handler waits for it the cycle stays suspended, with no call on its     *)
(* response and no log, for ever.  Every other cycle goes on as it would   *)
(* otherwise: once its call of handle has settled its own promise          *)
(* settles, with its response written and ended whenever it resolves (it   *)
(* rejects, with no response ended, when its catch block throws).          *)
(***************************************************************************)
C15_AbortSuspendsOnlyItsCycle ==
  /\ [](\A c \in Cycles :
          /\ stream[c].aborted =>
               /\ ~stream[c].ended
               /\ \A i \in 1..Len(listeners[c]) : ~listeners[c][i].resolved
          /\ AbortedWhileDraining(c) =>
               /\ pc[c] = "awaiting"
               /\ WriteCalls(trace[c]) = <<>>
               /\ ~Logged(trace[c])
          /\ pc[c] = "done" => Finished(trace[c]))
  /\ [][\A c \in Cycles :
          /\ stream[c].aborted =>
               /\ stream'[c].aborted
               /\ stream'[c].pending = stream[c].pending
               /\ \A i \in 1..Len(listeners[c]) : listeners'[c][i] = listeners[c][i]
          /\ (AbortedWhileDraining(c) /\ settled'[c] = Pending) =>
               /\ AbortedWhileDraining(c)'
               /\ trace'[c] = trace[c]]_vars
  /\ \A d \in Cycles :
       (settled[d] # Pending /\ \E c \in Cycles \ {d} : AbortedWhileDraining(c))
         ~> Over(d)

\* one cycle is suspended on an aborted stream and another has completed with
\* its response
C15_Witness ==
  \E c \in Cycles : \E d \in Cycles \ {c} :
    /\ AbortedWhileDraining(c)
    /\ pc[d] = "done"
    /\ settled[d].kind = "resolve"
    /\ Finished(trace[d])

\* what belongs to one cycle
Local(c) == <<pc[c], req[c], stream[c], listeners[c], settled[c], trace[c]>>

\* the calls a cycle makes when it runs with no other: those of lines 31-78 for
\* its own request, its own handler outcome and the mode of the listener
AloneTrace(c) ==
  LET called == <<[op |-> "handle", desc |-> Descriptor(c, req[c])]>>
  IN IF Validate(req[c]) # NoFault
     THEN CatchBlock(<<>>, Validate(req[c]), isProd).trace
     ELSE IF settled[c].kind = "resolve"
     THEN LET w == SuccessWrite(called, settled[c].value[1], settled[c].value[2])
          IN IF w.fault = NoFault THEN w.trace
             ELSE CatchBlock(w.trace, w.fault, isProd).trace
     ELSE CatchBlock(called, settled[c].value, isProd).trace

(***************************************************************************)
(* C16. Under every interleaving of the cycles, what every body() call of  *)
(* a cycle has accumulated, followed by the unread chunks of its stream,   *)
(* is the body of its own request; a completed cycle has made exactly the  *)
(* calls it makes when run alone, with its own request object as raw; and  *)
(* every step changes the state of one cycle at most, its calls being      *)
(* added by a step of that cycle's own listener.                           *)
(***************************************************************************)
C16_CyclesIndependent ==
  /\ [](\A c \in Cycles :
          /\ \A i \in 1..Len(listeners[c]) :
               listeners[c][i].body \o ChunkTexts(stream[c].pending)
                 = ChunkTexts(req[c].chunks)
          /\ Over(c) => trace[c] = AloneTrace(c)
          /\ \A i \in 1..Len(trace[c]) :
               trace[c][i].op = "handle" => trace[c][i].desc.raw = c)
  /\ [][\A c \in Cycles :
          /\ Local(c)' # Local(c) =>
               \A d \in Cycles \ {c} : Local(d)' = Local(d)
          /\ trace'[c] # trace[c] =>
               /\ pc'[c] # pc[c]
               /\ pc[c] \in {"idle", "awaiting"}]_vars

\* two cycles ran interleaved: each drained its own body, one wrote the
\* handler's response and the other failed
C16_Witness ==
  \E c \in Cycles : \E d \in Cycles \ {c} :
    /\ pc[c] = "done" /\ settled[c].kind = "resolve"
    /\ pc[d] = "rejected" /\ settled[d].kind = "reject"
    /\ Len(listeners[c]) = 1 /\ listeners[c][1].resolved
    /\ Len(listeners[d]) = 1 /\ listeners[d][1].resolved
    /\ listeners[c][1].body = <<96 + c>>
    /\ listeners[d][1].body = <<96 + d>>
    /\ ~Logged(trace[c])

\* the handler threw or rejected with a value that is not an Error
NonErrorFault(c) ==
  /\ settled[c].kind \in {"reject", "throw"}
  /\ settled[c].value.t # "Error"

\* the JSON texts of the faults of the model that are not Errors
RawFaultText(fault) ==
  CASE fault = Str(<<"s">>) -> <<"\"", "s", "\"">>
    [] fault = Obj(<< <<(<<"k">>), Str(<<"v">>)>> >>) ->
         <<"{", "\"", "k", "\"", ":", "\"", "v", "\"", "}">>
    [] fault = Undef -> <<"n", "u", "l", "l">>

\* {"errors":[<fault>]}
ExpectedRawBody(fault) ==
  <<"{", "\"", "e", "r", "r", "o", "r", "s", "\"", ":", "[">>
    \o RawFaultText(fault) \o <<"]", "}">>

(***************************************************************************)
(* C17 (as claimed). In the diagnostic mode, when the fault is not an      *)
(* Error, the calls on the response are writeHead(500, {content-type:      *)
(* application/json; charset=utf-8}) and an end, with a text, that         *)
(* returns.                                                                *)
(***************************************************************************)
C17_NonErrorFaultSerialised ==
  \A c \in Cycles :
    (Over(c) /\ ~isProd /\ NonErrorFault(c)) =>
      LET w == WriteCalls(trace[c])
      IN /\ Len(w) = 2
         /\ w[1] = HeadCall(<<Num(500), JsonContentType>>, FALSE)
         /\ w[2].op = "end" /\ ~w[2].threw
         /\ w[2].args[1].t = "string"

(***************************************************************************)
(* C17 (amended). In the diagnostic mode, when the fault is not an Error,  *)
(* writeHead(500, {content-type: application/json; charset=utf-8}) is      *)
(* called; when JSON.stringify can serialise the fault, end follows with   *)
(* the text {"errors":[<fault>]}, the fault itself in place of {message,   *)
(* stack} (null for undefined); when it cannot (a circular object), end is *)
(* not called and the listener's promise rejects.                          *)
(***************************************************************************)
C17_NonErrorFaultRawIfSerialisable ==
  \A c \in Cycles :
    (Over(c) /\ ~isProd /\ NonErrorFault(c)) =>
      LET w == WriteCalls(trace[c])
          fault == settled[c].value
      IN IF fault = Circular
         THEN /\ w = <<HeadCall(<<Num(500), JsonContentType>>, FALSE)>>
              /\ pc[c] = "rejected"
         ELSE /\ w = <<HeadCall(<<Num(500), JsonContentType>>, FALSE),
                       EndCall(<<Str(ExpectedRawBody(fault))>>, FALSE)>>
              /\ pc[c] = "done"

\* the handler rejected with the object {k: "v"} and it was serialised as it is
C17_Witness ==
  \E c \in Cycles :
    /\ pc[c] = "done"
    /\ ~isProd
    /\ settled[c] = [kind |-> "reject", value |-> Obj(<< <<(<<"k">>), Str(<<"v">>)>> >>)]
    /\ WriteCalls(trace[c])[2].args[1].s =
         <<"{", "\"", "e", "r", "r", "o", "r", "s", "\"", ":", "[", "{", "\"", "k", "\"", ":", "\"", "v", "\"", "}", "]", "}">>

\* the fallback writeHead of a cycle that failed: the call next to its log
FallbackHead(c) == trace[c][LogIndex(trace[c]) + 1]

(***************************************************************************)
(* C18. isProd takes the value of the environment at the step that creates *)
(* the listener and no later step changes it, whatever the environment     *)
(* becomes; the fallback writeHead of every failing cycle has the          *)
(* arguments of the mode isProd gives, so those of all the cycles agree.   *)
(***************************************************************************)
C18_ModeFixedAtCreation ==
  /\ [][/\ (~created /\ created') => isProd' = (env = "production")
        /\ created => (created' /\ isProd' = isProd)]_vars
  /\ [](\A c \in Cycles :
          (Over(c) /\ Logged(trace[c])) =>
            /\ FallbackHead(c).op = "writeHead"
            /\ FallbackHead(c).args = FallbackHeadArgs)
  /\ [](\A c \in Cycles : \A d \in Cycles :
          (Over(c) /\ Logged(trace[c]) /\ Over(d) /\ Logged(trace[d])) =>
            FallbackHead(c).args = FallbackHead(d).args)

\* a listener created in production: the environment has changed since, and
\* two cycles that failed both wrote the bare production fallback
C18_Witness ==
  \E c \in Cycles : \E d \in Cycles \ {c} :
    /\ created /\ isProd /\ env = "development"
    /\ pc[c] = "done" /\ pc[d] = "done"
    /\ Logged(trace[c]) /\ Logged(trace[d])
    /\ FallbackHead(c) = HeadCall(<<Num(500)>>, FALSE)
    /\ FallbackHead(d) = HeadCall(<<Num(500)>>, FALSE)

(***************************************************************************)
(* C19. The descriptor of every call of handle has the url, the method and *)
(* the headers of the cycle's request, that request object as raw and      *)
(* undefined as context; and from the call of the listener on, no step     *)
(* changes the url, the method or the headers of the request.              *)
(***************************************************************************)
C19_DescriptorMirrorsRequest ==
  /\ [](\A c \in Cycles :
          \A i \in 1..Len(trace[c]) :
            trace[c][i].op = "handle" =>
              trace[c][i].desc = [url |-> req[c].url, method |-> req[c].method,
                                  headers |-> req[c].headers, raw |-> c,
                                  context |-> Undef])
  /\ [][\A c \in Cycles :
          Started(c) =>
            /\ req'[c].url = req[c].url
            /\ req'[c].method = req[c].method
            /\ req'[c].headers = req[c].headers]_vars

\* handle was called with the url, the method and the headers of the request
C19_Witness ==
  \E c \in Cycles :
    /\ pc[c] = "awaiting"
    /\ trace[c] = <<[op |-> "handle",
                     desc |-> [url |-> Str(<<"/", "g">>),
                               method |-> Str(<<"P", "O", "S", "T">>),
                               headers |-> Obj(<< <<(<<"h", "o", "s", "t">>), Str(<<"x">>)>> >>),
                               raw |-> c, context |-> Undef]]>>
    /\ req[c].url = Str(<<"/", "g">>)

====
